---------------------------- MODULE Spec2Model ----------------------------
(***************************************************************************)
(* SearchInk: the client search page (src/client/src/pages/search.tsx) and *)
(* the in-memory record store (src/server/storage.ts).                     *)
(*                                                                         *)
(* Strings are sequences of one-character strings, so that toLowerCase,    *)
(* trim, split and includes are computed and not assumed.  The optional    *)
(* activeTag (string | null) is <<>> for null and <<t>> for the tag t.     *)
(***************************************************************************)
EXTENDS Integers, Sequences, FiniteSets, TLC

(***************************************************************************)
(* Bounds of the model.                                                    *)
(***************************************************************************)
\* longest record collection the search page is checked on
MaxRecords == 2
\* longest text highlightText is checked on
MaxTextLen == 4
\* most match ranges handed to one highlightText call
MaxSpans == 2
\* most addSearchItem calls on the store
MaxAdds == 3
\* most sequences getSearchItems hands out
MaxReads == 2
\* most POST /api/items requests answered
MaxPosts == 2

(***************************************************************************)
(* State.                                                                  *)
(***************************************************************************)
\* the search page: SearchPage of search.tsx
VARIABLES
    SAMPLE_DATA,        \* the record collection the page searches
    query,              \* useState("")
    activeTag,          \* useState<string | null>(null)
    perPage,            \* useState(10)
    sortBy,             \* useState("relevance")
    suggestions,        \* useState<string[]>([])
    showSuggestions,    \* useState(false)
    inputValue,         \* the value handleQueryChange was last called with
    results,            \* useMemo over query, activeTag, sortBy
    paginatedResults,   \* useMemo over results, perPage
    thrown              \* the error a render of the page has thrown, or "none"

pageVars ==
    <<SAMPLE_DATA, query, activeTag, perPage, sortBy, suggestions,
      showSuggestions, inputValue, results, paginatedResults, thrown>>

\* highlightText of search.tsx
VARIABLES
    hlText,             \* the text argument of the last call
    hlIndices,          \* the indices argument of the last call
    hlParts             \* what the call returned

hlVars == <<hlText, hlIndices, hlParts>>

\* the record store: MemStorage of storage.ts
VARIABLES
    searchItems,        \* the contents of the array this.searchItems
    nextId,             \* this.nextId
    handedOut,          \* the sequences getSearchItems has returned
    addReturned,        \* the records addSearchItem has returned
    responses           \* the answers POST /api/items has sent, each with its request

storeVars == <<searchItems, nextId, handedOut, addReturned, responses>>

vars == <<pageVars, hlVars, storeVars>>

(***************************************************************************)
(* Program constants.                                                      *)
(***************************************************************************)
\* Array.from(tokens).slice(0, 8)
MaxSuggestions == 8
\* useState(10)
InitialPerPage == 10
\* fuse keys: { name: "title", weight: 0.6 }, in hundredths
TitleWeight == 60
\* { name: "tags", weight: 0.25 }, in hundredths
TagsWeight == 25
\* { name: "description", weight: 0.15 }, in hundredths
DescriptionWeight == 15
\* minMatchCharLength: 2
MinMatchCharLength == 2

(***************************************************************************)
(* JavaScript strings and arrays.                                          *)
(***************************************************************************)
\* String.prototype.toLowerCase, one character
LowerChar(c) ==
    CASE c = "A" -> "a"
      [] c = "B" -> "b"
      [] OTHER -> c

\* String.prototype.toLowerCase
ToLowerCase(s) == [i \in 1..Len(s) |-> LowerChar(s[i])]

\* the characters \s matches
IsSpace(c) == c = " "

RECURSIVE TrimStart(_)
TrimStart(s) ==
    IF s # <<>> /\ IsSpace(Head(s)) THEN TrimStart(Tail(s)) ELSE s

RECURSIVE TrimEnd(_)
TrimEnd(s) ==
    IF s # <<>> /\ IsSpace(s[Len(s)]) THEN TrimEnd(SubSeq(s, 1, Len(s) - 1)) ELSE s

\* String.prototype.trim
Trim(s) == TrimEnd(TrimStart(s))

\* String.prototype.includes
Includes(s, sub) ==
    \E i \in 0..(Len(s) - Len(sub)) : SubSeq(s, i + 1, i + Len(sub)) = sub

\* String.prototype.split(/\s+/): every maximal run of whitespace is one
\* separator; a leading or trailing run leaves an empty string at that end.
RECURSIVE SplitFrom(_, _, _)
SplitFrom(s, i, cur) ==
    IF i > Len(s) THEN <<cur>>
    ELSE IF IsSpace(s[i])
         THEN IF i > 1 /\ IsSpace(s[i - 1])
              THEN SplitFrom(s, i + 1, cur)
              ELSE <<cur>> \o SplitFrom(s, i + 1, <<>>)
         ELSE SplitFrom(s, i + 1, Append(cur, s[i]))

SplitWhitespace(s) == SplitFrom(s, 1, <<>>)

Min(a, b) == IF a < b THEN a ELSE b
Max(a, b) == IF a > b THEN a ELSE b

\* Array.prototype.slice(start, end): a negative index counts from the end,
\* both are clamped to [0, length]
RelativeIndex(k, len) == IF k < 0 THEN Max(len + k, 0) ELSE Min(k, len)

Slice(arr, start, end) ==
    SubSeq(arr, RelativeIndex(start, Len(arr)) + 1, RelativeIndex(end, Len(arr)))

\* Array.prototype.includes on an array of strings: strict equality
ArrayIncludes(arr, x) == \E i \in 1..Len(arr) : arr[i] = x

\* parseInt on a decimal numeral with an optional sign
Digit(c) ==
    CASE c = "0" -> 0 [] c = "1" -> 1 [] c = "2" -> 2 [] c = "3" -> 3
      [] c = "4" -> 4 [] c = "5" -> 5 [] c = "6" -> 6 [] c = "7" -> 7
      [] c = "8" -> 8 [] c = "9" -> 9

RECURSIVE ParseDigits(_, _)
ParseDigits(s, acc) ==
    IF s = <<>> THEN acc ELSE ParseDigits(Tail(s), acc * 10 + Digit(Head(s)))

ParseInt(s) ==
    IF Head(s) = "-" THEN 0 - ParseDigits(Tail(s), 0) ELSE ParseDigits(s, 0)

\* new Date(date).getTime() of a date-only string: milliseconds of UTC
\* midnight of that day; a date is kept as its day number
DateGetTime(date) == date * 24 * 60 * 60 * 1000


\* The elements of a sequence in order, each kept at its first occurrence:
\* the iteration order of a JavaScript Set or Map filled in that order.
RECURSIVE InsertionOrder(_, _)
InsertionOrder(seq, seen) ==
    IF seq = <<>> THEN seen
    ELSE InsertionOrder(Tail(seq),
                        IF ArrayIncludes(seen, Head(seq)) THEN seen
                        ELSE Append(seen, Head(seq)))

RECURSIVE Flatten(_)
Flatten(seqs) == IF seqs = <<>> THEN <<>> ELSE Head(seqs) \o Flatten(Tail(seqs))

(***************************************************************************)
(* Record collections.  The page searches SAMPLE_DATA; the pipeline is     *)
(* checked on every collection of at most MaxRecords records drawn from    *)
(* RecordPool, with ids 1, 2, ... in collection order as in SAMPLE_DATA.   *)
(* The pool holds records that share a date, tags that differ only in      *)
(* case, an empty tag, and titles and tags rich enough in tokens for the   *)
(* suggestion list to overflow.                                            *)
(***************************************************************************)
RecordPool ==
    { [title |-> <<"a", "b", " ", "A", "b", " ", "a", "B", " ", "a", "b", "b">>,
       description |-> <<"b">>,
       tags |-> << <<"A", "B">> >>,
       date |-> 1],
      [title |-> <<"b", "a", "b", " ", "a", "a", "b", " ", "B", "a", "b", " ",
                   "a", "b", "a">>,
       description |-> <<"a", "b">>,
       tags |-> << <<"a", "b">> >>,
       date |-> 1],
      [title |-> <<"b", " ", "a">>,
       description |-> <<"a">>,
       tags |-> << <<>> >>,
       date |-> 2] }

WithIds(c) ==
    [i \in 1..Len(c) |->
        [id |-> i, title |-> c[i].title, description |-> c[i].description,
         tags |-> c[i].tags, date |-> c[i].date]]

Collections ==
    { WithIds(c) : c \in UNION { [1..n -> RecordPool] : n \in 0..MaxRecords } }

\* what the search input's change event can carry
QueryInputs ==
    { <<>>, <<" ">>, <<"b">>, <<"a", "B">>, <<"a", "b", " ">> }

\* what the per-page select's change event can carry: the three options of
\* the markup, and the other numerals parseInt accepts from it
PerPageOptions == { <<"5">>, <<"1", "0">>, <<"2", "0">> }
PerPageInputs == PerPageOptions \cup { <<"1">>, <<"0">>, <<"-", "1">> }

SortModes == { "relevance", "newest", "oldest" }

(***************************************************************************)
(* fuse.search.  The library is not part of the repository: it is modelled *)
(* from sections 4.2 and 4.3 of the specification, restricted to exact     *)
(* (cost 0) case-insensitive occurrences of the pattern.  A field that     *)
(* does not match costs its full weight, a record with no matching field   *)
(* is excluded, results are ascending by score and, on equal scores, in    *)
(* collection order.                                                       *)
(***************************************************************************)
FieldMatches(text, pattern) == Includes(ToLowerCase(text), pattern)

\* the positions (from 1) of text covered by an occurrence of pattern
MatchMask(text, pattern) ==
    LET lower == ToLowerCase(text)
        starts == { i \in 1..(Len(text) - Len(pattern) + 1) :
                      SubSeq(lower, i, i + Len(pattern) - 1) = pattern }
    IN { p \in 1..Len(text) : \E i \in starts : i <= p /\ p < i + Len(pattern) }

\* convertMaskToIndices: the maximal runs of the mask of at least
\* minMatchCharLength positions, as [start, end] pairs from 0, end inclusive;
\* start is the first position of the run being read, 0 when outside a run
RECURSIVE RunsFrom(_, _, _, _)
RunsFrom(mask, len, p, start) ==
    IF p > len
    THEN IF start # 0 /\ p - start >= MinMatchCharLength
         THEN << <<start - 1, len - 1>> >> ELSE <<>>
    ELSE IF p \in mask
         THEN RunsFrom(mask, len, p + 1, IF start = 0 THEN p ELSE start)
         ELSE (IF start # 0 /\ p - start >= MinMatchCharLength
               THEN << <<start - 1, p - 2>> >> ELSE <<>>)
              \o RunsFrom(mask, len, p + 1, 0)

MatchIndices(text, pattern) == RunsFrom(MatchMask(text, pattern), Len(text), 1, 0)

FuseMatches(item, pattern) ==
    (IF FieldMatches(item.title, pattern)
     THEN << [key |-> "title", indices |-> MatchIndices(item.title, pattern)] >>
     ELSE <<>>)
    \o Flatten([t \in 1..Len(item.tags) |->
                  IF FieldMatches(item.tags[t], pattern)
                  THEN << [key |-> "tags",
                           indices |-> MatchIndices(item.tags[t], pattern)] >>
                  ELSE <<>>])
    \o (IF FieldMatches(item.description, pattern)
        THEN << [key |-> "description",
                 indices |-> MatchIndices(item.description, pattern)] >>
        ELSE <<>>)

\* the weights of the keys no match was found in
FuseScore(matches) ==
    LET found(key) == \E m \in 1..Len(matches) : matches[m].key = key
    IN (IF found("title") THEN 0 ELSE TitleWeight)
       + (IF found("tags") THEN 0 ELSE TagsWeight)
       + (IF found("description") THEN 0 ELSE DescriptionWeight)

(***************************************************************************)
(* Comparators and the stable Array.prototype.sort (ECMAScript 2019): an   *)
(* element is placed after every element already placed that does not      *)
(* compare greater than it.                                                *)
(***************************************************************************)
CompareScore(a, b) == a.score - b.score

\* ranges.sort((a, b) => a.start - b.start)
CompareStart(a, b) == a.start - b.start

\* the newest comparator with its operands exchanged
CompareNewest_Ascending(a, b) == DateGetTime(a.item.date) - DateGetTime(b.item.date)

\* (a, b) => new Date(b.item.date).getTime() - new Date(a.item.date).getTime()
CompareNewest(a, b) == DateGetTime(b.item.date) - DateGetTime(a.item.date)

\* (a, b) => new Date(a.item.date).getTime() - new Date(b.item.date).getTime()
CompareOldest(a, b) == DateGetTime(a.item.date) - DateGetTime(b.item.date)

Compare(order, a, b) ==
    CASE order = "newest" -> CompareNewest(a, b)
      [] order = "oldest" -> CompareOldest(a, b)
      [] order = "score" -> CompareScore(a, b)
      [] order = "start" -> CompareStart(a, b)

\* a sort that places an element before the elements it ties with
RECURSIVE InsertSorted_Unstable(_, _, _)
InsertSorted_Unstable(sorted, x, order) ==
    IF sorted = <<>> THEN <<x>>
    ELSE IF Compare(order, Head(sorted), x) >= 0
         THEN <<x>> \o sorted
         ELSE <<Head(sorted)>> \o InsertSorted_Unstable(Tail(sorted), x, order)

RECURSIVE InsertSorted(_, _, _)
InsertSorted(sorted, x, order) ==
    IF sorted = <<>> THEN <<x>>
    ELSE IF Compare(order, Head(sorted), x) > 0
         THEN <<x>> \o sorted
         ELSE <<Head(sorted)>> \o InsertSorted(Tail(sorted), x, order)

RECURSIVE SortFrom(_, _, _)
SortFrom(sorted, rest, order) ==
    IF rest = <<>> THEN sorted
    ELSE SortFrom(InsertSorted(sorted, Head(rest), order), Tail(rest), order)

ArraySort(arr, order) == SortFrom(<<>>, arr, order)

FuseSearch(data, q) ==
    LET pattern == ToLowerCase(q)
        hit(item) == LET matches == FuseMatches(item, pattern)
                     IN IF matches # <<>>
                        THEN << [item |-> item, matches |-> matches,
                                 score |-> FuseScore(matches)] >>
                        ELSE <<>>
        hits == Flatten([i \in 1..Len(data) |-> hit(data[i])])
    IN ArraySort(hits, "score")


(***************************************************************************)
(* The search page: SearchPage of search.tsx.                              *)
(***************************************************************************)

\* a JavaScript condition on a string: "" is falsy
Truthy(s) == s # <<>>

\* if (activeTag): null and "" are falsy
ActiveTagTruthy(tag) == tag # <<>> /\ Truthy(tag[1])

\* the search stage without the trim of the query
SearchStage_NoTrim(data, q) ==
    IF Truthy(q)
    THEN FuseSearch(data, q)
    ELSE [i \in 1..Len(data) |-> [item |-> data[i]]]

\* if (query.trim()) fuse.search(query) mapped to { item, matches, score },
\* else SAMPLE_DATA.map((item) => ({ item }))
SearchStage(data, q) ==
    IF Truthy(Trim(q))
    THEN FuseSearch(data, q)
    ELSE [i \in 1..Len(data) |-> [item |-> data[i]]]

\* a tag predicate that compares case-insensitively
TagPredicate_IgnoreCase(result, tag) ==
    \E t \in 1..Len(result.item.tags) :
        ToLowerCase(result.item.tags[t]) = ToLowerCase(tag)

\* (result) => result.item.tags.includes(activeTag)
TagPredicate(result, tag) == ArrayIncludes(result.item.tags, tag)

RECURSIVE FilterByTag(_, _)
FilterByTag(filtered, tag) ==
    IF filtered = <<>> THEN <<>>
    ELSE (IF TagPredicate(Head(filtered), tag) THEN <<Head(filtered)>> ELSE <<>>)
         \o FilterByTag(Tail(filtered), tag)

\* if (activeTag) filtered = filtered.filter(...)
FilterStage(filtered, tag) ==
    IF ActiveTagTruthy(tag) THEN FilterByTag(filtered, tag[1]) ELSE filtered

\* if (sortBy === "newest") filtered.sort(...) else if (sortBy === "oldest") ...
SortStage(filtered, mode) ==
    IF mode = "newest" THEN ArraySort(filtered, "newest")
    ELSE IF mode = "oldest" THEN ArraySort(filtered, "oldest")
    ELSE filtered

Results(data, q, tag, mode) ==
    SortStage(FilterStage(SearchStage(data, q), tag), mode)

\* an empty-query branch that leaves `filtered` naming the collection array
FilteredArray_KeptOnEmptyQuery(q, tag) ==
    IF ActiveTagTruthy(tag) THEN "new"
    ELSE IF Truthy(Trim(q)) THEN "new" ELSE "SAMPLE_DATA"

\* the array `filtered` names when the sorts run: let filtered = SAMPLE_DATA
\* is overwritten in either branch of if (query.trim()) by the array a map()
\* call returns, and by the array filter() returns when a tag is active
FilteredArray(q, tag) ==
    IF ActiveTagTruthy(tag) THEN "new"
    ELSE IF Truthy(Trim(q)) THEN "new" ELSE "new"

\* the collection array after the memo has run: filtered.sort(...) reorders
\* in place the array `filtered` names
CollectionAfterResults(data, q, tag, mode) ==
    IF FilteredArray(q, tag) = "SAMPLE_DATA" /\ mode \in {"newest", "oldest"}
    THEN LET sorted == ArraySort([i \in 1..Len(data) |-> [item |-> data[i]]], mode)
         IN [i \in 1..Len(data) |-> sorted[i].item]
    ELSE data

\* a page that stops one entry early
PaginatedResults_OneShort(res, n) == Slice(res, 0, n - 1)

\* results.slice(0, perPage)
PaginatedResults(res, n) == Slice(res, 0, n)

\* the tags of the collection in first-encounter order, each with its count
AllTags(data) ==
    LET all == Flatten([i \in 1..Len(data) |-> data[i].tags])
        keys == InsertionOrder(all, <<>>)
    IN [k \in 1..Len(keys) |->
          <<keys[k], Cardinality({ j \in 1..Len(all) : all[j] = keys[k] })>>]

\* a token test that compares case-sensitively
TokenMatches_CaseSensitive(token, value) == Includes(token, value)

\* word.toLowerCase().includes(value.toLowerCase())
TokenMatches(token, value) == Includes(ToLowerCase(token), ToLowerCase(value))

RECURSIVE KeepMatching(_, _)
KeepMatching(tokens, value) ==
    IF tokens = <<>> THEN <<>>
    ELSE (IF TokenMatches(Head(tokens), value) THEN <<Head(tokens)>> ELSE <<>>)
         \o KeepMatching(Tail(tokens), value)

\* the tokens.add calls of one record: its title words, then its tags
ItemTokens(item, value) ==
    KeepMatching(SplitWhitespace(item.title), value) \o KeepMatching(item.tags, value)

\* const tokens = new Set<string>(), filled record by record
TokenSet(data, value) ==
    InsertionOrder(Flatten([i \in 1..Len(data) |-> ItemTokens(data[i], value)]), <<>>)

\* Array.from(tokens).slice(0, 8)
SuggestionList(tokens) == Slice(tokens, 0, MaxSuggestions)

\* if (value.trim().length < 2)
TooShort(value) == Len(Trim(value)) < 2

PageInit ==
    /\ SAMPLE_DATA \in Collections
    /\ query = <<>>
    /\ activeTag = <<>>
    /\ perPage = InitialPerPage
    /\ sortBy = "relevance"
    /\ suggestions = <<>>
    /\ showSuggestions = FALSE
    /\ inputValue = <<>>
    /\ results = Results(SAMPLE_DATA, query, activeTag, sortBy)
    /\ paginatedResults = PaginatedResults(results, perPage)
    /\ thrown = "none"

\* the render that follows a state change: useMemo recomputes results when
\* query, activeTag or sortBy changed, and paginatedResults from results and
\* perPage; the collection is left as the memo's sorts leave it; nothing in
\* the render throws
Render ==
    /\ results' = IF <<query', activeTag', sortBy'>> = <<query, activeTag, sortBy>>
                  THEN results
                  ELSE Results(SAMPLE_DATA, query', activeTag', sortBy')
    /\ SAMPLE_DATA' = IF <<query', activeTag', sortBy'>> = <<query, activeTag, sortBy>>
                      THEN SAMPLE_DATA
                      ELSE CollectionAfterResults(SAMPLE_DATA, query', activeTag', sortBy')
    /\ paginatedResults' = PaginatedResults(results', perPage')
    /\ thrown' = "none"
    /\ UNCHANGED <<hlVars, storeVars>>

HandleQueryChange(value) ==
    /\ query' = value
    /\ inputValue' = value
    /\ IF TooShort(value)
       THEN /\ suggestions' = <<>>
            /\ showSuggestions' = FALSE
       ELSE LET tokens == TokenSet(SAMPLE_DATA, value)
            IN /\ suggestions' = SuggestionList(tokens)
               /\ showSuggestions' = (Len(tokens) > 0)
    /\ UNCHANGED <<activeTag, perPage, sortBy>>
    /\ Render

\* onClick of a suggestion of the dropdown
ClickSuggestion(k) ==
    /\ showSuggestions /\ Len(suggestions) > 0
    /\ k \in 1..Len(suggestions)
    /\ query' = suggestions[k]
    /\ showSuggestions' = FALSE
    /\ UNCHANGED <<activeTag, perPage, sortBy, suggestions, inputValue>>
    /\ Render

\* onClick of a tag button
ToggleTag(k) ==
    /\ k \in 1..Len(AllTags(SAMPLE_DATA))
    /\ LET tag == AllTags(SAMPLE_DATA)[k][1]
       IN activeTag' = IF activeTag = <<tag>> THEN <<>> ELSE <<tag>>
    /\ UNCHANGED <<query, perPage, sortBy, suggestions,
                   showSuggestions, inputValue>>
    /\ Render

\* onChange of the per-page select
SetPerPage(value) ==
    /\ perPage' = ParseInt(value)
    /\ UNCHANGED <<query, activeTag, sortBy, suggestions,
                   showSuggestions, inputValue>>
    /\ Render

\* onChange of the sort select
SetSortBy(mode) ==
    /\ sortBy' = mode
    /\ UNCHANGED <<query, activeTag, perPage, suggestions,
                   showSuggestions, inputValue>>
    /\ Render

\* a count taken from the page instead of the list
TextResultCount_OfPage == Len(paginatedResults)

\* the "N results" the header shows: {results.length}
TextResultCount == Len(results)

PageNext ==
    \/ \E value \in QueryInputs : HandleQueryChange(value)
    \/ \E k \in 1..MaxSuggestions : ClickSuggestion(k)
    \/ \E k \in 1..Len(AllTags(SAMPLE_DATA)) : ToggleTag(k)
    \/ \E value \in PerPageInputs : SetPerPage(value)
    \/ \E mode \in SortModes : SetSortBy(mode)


(***************************************************************************)
(* highlightText of search.tsx.  The rendered node list is a sequence of   *)
(* parts, each the slice of the text it shows and whether it is wrapped in *)
(* a search-highlight span.                                                *)
(***************************************************************************)

\* String.prototype.slice on a string
StringSlice(text, start, end) == Slice(text, start, end)

\* one iteration of ranges.forEach: acc is [parts, lastIndex]
HighlightStep(text, acc, range) ==
    LET gap == IF range.start > acc.lastIndex
               THEN << [highlight |-> FALSE,
                        text |-> StringSlice(text, acc.lastIndex, range.start)] >>
               ELSE <<>>
    IN [parts |-> acc.parts \o gap
                  \o << [highlight |-> TRUE,
                         text |-> StringSlice(text, range.start, range.end)] >>,
        lastIndex |-> range.end]

RECURSIVE HighlightEach(_, _, _)
HighlightEach(text, acc, ranges) ==
    IF ranges = <<>> THEN acc
    ELSE HighlightEach(text, HighlightStep(text, acc, Head(ranges)), Tail(ranges))

\* indices.map(([start, end]) => ({ start, end: end + 1 })), then sorted
HighlightRanges(indices) ==
    ArraySort([i \in 1..Len(indices) |->
                  [start |-> indices[i][1], end |-> indices[i][2] + 1]],
              "start")

HighlightText(text, indices) ==
    IF Len(indices) = 0
    THEN << [highlight |-> FALSE, text |-> text] >>
    ELSE LET done == HighlightEach(text, [parts |-> <<>>, lastIndex |-> 0],
                                   HighlightRanges(indices))
         IN done.parts
            \o (IF done.lastIndex < Len(text)
                THEN << [highlight |-> FALSE,
                         text |-> StringSlice(text, done.lastIndex, Len(text))] >>
                ELSE <<>>)

\* texts of pairwise different characters, so that a character rendered
\* twice shows in the rendered text
HlAlphabet == <<"a", "b", "c", "d", "e", "f", "g", "h">>
HlTexts == { SubSeq(HlAlphabet, 1, n) : n \in 0..MaxTextLen }

\* the [start, end] pairs (end inclusive) that lie within a text
HlPairs(text) ==
    { p \in (0..(Len(text) - 1)) \X (0..(Len(text) - 1)) : p[1] <= p[2] }

HlIndexLists(text) == UNION { [1..n -> HlPairs(text)] : n \in 0..MaxSpans }

HlInit ==
    /\ hlText = <<>>
    /\ hlIndices = <<>>
    /\ hlParts = HighlightText(hlText, hlIndices)

CallHighlightText(text, indices) ==
    /\ hlText' = text
    /\ hlIndices' = indices
    /\ hlParts' = HighlightText(text, indices)
    /\ UNCHANGED <<pageVars, storeVars>>

HlNext ==
    \E text \in HlTexts : \E indices \in HlIndexLists(text) :
        CallHighlightText(text, indices)

(***************************************************************************)
(* The record store: MemStorage of storage.ts.  Its records keep their     *)
(* texts as opaque strings.                                                *)
(***************************************************************************)

SeedItems ==
    << [id |-> 1, title |-> "Coffee Culture: A Short History",
        description |-> "Explore coffee shops, origins and rituals across the world.",
        tags |-> <<"coffee", "culture", "history">>, date |-> "2024-12-02"],
       [id |-> 2, title |-> "Metaverse UX Patterns",
        description |-> "Design principles for immersive experiences and social spaces.",
        tags |-> <<"ux", "metaverse", "design">>, date |-> "2025-03-10"],
       [id |-> 3, title |-> "AI for Creators",
        description |-> "How small creators leverage AI to scale content workflow.",
        tags |-> <<"ai", "creators", "productivity">>, date |-> "2024-09-30"],
       [id |-> 4, title |-> "Street Food Guide",
        description |-> "A lovingly curated guide to the best street food in your city.",
        tags |-> <<"food", "guide", "local">>, date |-> "2023-05-20"],
       [id |-> 5, title |-> "Photography: Light & Mood",
        description |-> "Techniques to capture mood using natural and artificial light.",
        tags |-> <<"photography", "camera", "light">>, date |-> "2025-01-15"],
       [id |-> 6, title |-> "Cryptic Puzzles",
        description |-> "A book of puzzles to stretch your mind and patience.",
        tags |-> <<"puzzles", "games", "brain">>, date |-> "2022-11-01"],
       [id |-> 7, title |-> "Sustainable Architecture",
        description |-> "Design strategies that prioritize ecology and people.",
        tags |-> <<"architecture", "sustainability">>, date |-> "2024-06-14"],
       [id |-> 8, title |-> "Guide to Freelancing",
        description |-> "Practical advice for building a freelance career online.",
        tags |-> <<"freelance", "career", "guide">>, date |-> "2025-02-21"],
       [id |-> 9, title |-> "Gardening in Small Spaces",
        description |-> "How to grow a thriving garden on balconies and windowsills.",
        tags |-> <<"gardening", "home", "plants">>, date |-> "2023-07-09"],
       [id |-> 10, title |-> "Beginner's Guide to JavaScript",
        description |-> "Learn modern JavaScript fundamentals with hands-on examples.",
        tags |-> <<"javascript", "programming", "guide">>, date |-> "2025-04-02"] >>

\* this.nextId = 11
SeedNextId == 11

\* the InsertSearchItem values addSearchItem is called with
InsertItems ==
    { [title |-> "Tea Rituals", description |-> "Notes on tea.",
       tags |-> <<"tea", "guide">>, date |-> "2025-05-01"],
      [title |-> "Street Food Guide", description |-> "",
       tags |-> <<>>, date |-> "2023-05-20"] }

\* { ...insertItem, id: this.nextId++ }: the id the record gets
AssignedId(n) == n

\* a counter that is read and not advanced
IncrementedId_Stuck(n) == n

\* this.nextId++: the counter afterwards
IncrementedId(n) == n + 1

NewSearchItem(insertItem, n) ==
    [id |-> AssignedId(n), title |-> insertItem.title,
     description |-> insertItem.description, tags |-> insertItem.tags,
     date |-> insertItem.date]

\* return this.searchItems: the caller gets the store's own array, so what
\* it holds is what the array holds now.  atRead keeps the contents at the
\* moment of the read.
ReturnedSequence(items) == [alias |-> TRUE, atRead |-> items]

\* the contents, now, of a sequence that was handed out
Contents(handle) == IF handle.alias THEN searchItems ELSE handle.atRead

StoreInit ==
    /\ searchItems = SeedItems
    /\ nextId = SeedNextId
    /\ handedOut = <<>>
    /\ addReturned = <<>>
    /\ responses = <<>>

GetSearchItems ==
    /\ Len(handedOut) < MaxReads
    /\ handedOut' = Append(handedOut, ReturnedSequence(searchItems))
    /\ UNCHANGED <<searchItems, nextId, addReturned, responses>>
    /\ UNCHANGED <<pageVars, hlVars>>

\* the method itself: build the record, push it, return it
AddSearchItemCall(insertItem) ==
    /\ Len(addReturned) < MaxAdds
    /\ searchItems' = Append(searchItems, NewSearchItem(insertItem, nextId))
    /\ nextId' = IncrementedId(nextId)
    /\ addReturned' = Append(addReturned, NewSearchItem(insertItem, nextId))

\* a call of the method from outside the route
AddSearchItem(insertItem) ==
    /\ AddSearchItemCall(insertItem)
    /\ UNCHANGED <<handedOut, responses>>
    /\ UNCHANGED <<pageVars, hlVars>>

(***************************************************************************)
(* POST /api/items.  A request body is a JSON value: a string, a number,   *)
(* an array or an object, or nothing at all.                               *)
(***************************************************************************)
JString(s) == [type |-> "string", str |-> s, elems |-> <<>>]
JNumber(literal) == [type |-> "number", str |-> literal, elems |-> <<>>]
JArray(elems) == [type |-> "array", str |-> "", elems |-> elems]
JObject(fields) == [type |-> "object", fields |-> fields]
JUndefined == [type |-> "undefined", fields |-> <<>>]

\* the bodies the requests carry
RequestBodies ==
    << JObject([title |-> JString("Tea Rituals"), description |-> JString("Notes on tea."),
                tags |-> JArray(<<JString("tea"), JString("guide")>>),
                date |-> JString("2025-05-01")]),
       JObject([id |-> JNumber("3"), title |-> JString("Street Food Guide"),
                description |-> JString(""), tags |-> JArray(<<>>),
                date |-> JString("2023-05-20")]),
       JObject([description |-> JString("Notes on tea."),
                tags |-> JArray(<<JString("tea")>>), date |-> JString("2025-05-01")]),
       JObject([title |-> JString("Tea Rituals"), description |-> JString("Notes on tea."),
                tags |-> JString("tea"), date |-> JString("2025-05-01")]),
       JObject([title |-> JString("Tea Rituals"), description |-> JString("Notes on tea."),
                tags |-> JArray(<<JString("tea"), JNumber("7")>>),
                date |-> JString("2025-05-01")]),
       JObject([title |-> JString("Tea Rituals"), description |-> JString("Notes on tea."),
                tags |-> JArray(<<>>), date |-> JNumber("20250501")]),
       JUndefined >>

\* z.string()
ZString(value) == value.type = "string"

\* a tags check that accepts any array
ZArrayOfString_AnyElements(value) == value.type = "array"

\* z.array(z.string())
ZArrayOfString(value) ==
    /\ value.type = "array"
    /\ \A i \in 1..Len(value.elems) : ZString(value.elems[i])

\* one key of a z.object: a missing key is undefined and fails its schema
ZKey(body, key, kind) ==
    /\ key \in DOMAIN body.fields
    /\ IF kind = "string" THEN ZString(body.fields[key])
       ELSE ZArrayOfString(body.fields[key])

\* insertSearchItemSchema.safeParse(req.body).success: searchItemSchema
\* without id
SafeParseSuccess(body) ==
    /\ body.type = "object"
    /\ ZKey(body, "title", "string")
    /\ ZKey(body, "description", "string")
    /\ ZKey(body, "tags", "array")
    /\ ZKey(body, "date", "string")

\* parsed.data: the keys of the schema, any other key stripped
ParsedData(body) ==
    [title |-> body.fields.title.str,
     description |-> body.fields.description.str,
     tags |-> [i \in 1..Len(body.fields.tags.elems) |-> body.fields.tags.elems[i].str],
     date |-> body.fields.date.str]

\* res.status(n).json(payload), for request k
Response(n, payload, k) == [status |-> n, body |-> payload, request |-> k]

\* app.post("/api/items", ...): addSearchItem does not throw, so the catch
\* with its 500 is never entered
PostItems(k) ==
    /\ Len(responses) < MaxPosts
    /\ LET body == RequestBodies[k]
       IN IF ~SafeParseSuccess(body)
          THEN /\ responses' = Append(responses,
                                     Response(400, [error |-> "Invalid item data"], k))
               /\ UNCHANGED <<searchItems, nextId, addReturned>>
          ELSE /\ AddSearchItemCall(ParsedData(body))
               /\ responses' = Append(responses,
                                     Response(201, addReturned'[Len(addReturned')], k))
    /\ UNCHANGED handedOut
    /\ UNCHANGED <<pageVars, hlVars>>

StoreNext ==
    \/ GetSearchItems
    \/ \E insertItem \in InsertItems : AddSearchItem(insertItem)
    \/ \E k \in 1..Len(RequestBodies) : PostItems(k)

(***************************************************************************)
(* Specifications: the search page, highlightText, and the store, each     *)
(* with the other two at rest.                                             *)
(***************************************************************************)
Init == PageInit /\ HlInit /\ StoreInit

Next == PageNext

Spec == Init /\ [][Next]_vars

\* the page over the empty collection, untouched
AtRest == SAMPLE_DATA = <<>> /\ PageInit /\ HlInit /\ StoreInit

HighlightSpec == AtRest /\ [][HlNext]_vars

StoreSpec == AtRest /\ [][StoreNext]_vars


(***************************************************************************)
(* Properties.                                                             *)
(***************************************************************************)
\* the list the sort stage receives
Filtered == FilterStage(SearchStage(SAMPLE_DATA, query), activeTag)

\* the position of the result of record id in a result list
PositionOf(list, id) == CHOOSE k \in 1..Len(list) : list[k].item.id = id

\* the position of record id in the collection
CollectionIndex(id) == CHOOSE k \in 1..Len(SAMPLE_DATA) : SAMPLE_DATA[k].id = id

SameDate(a, b) == a.item.date = b.item.date

DateSorted == sortBy \in {"newest", "oldest"}

C2_NonPositivePageSizeRejected ==
    perPage <= 0 => thrown = "InvalidConfiguration"

\* C5: an empty or whitespace-only query under relevance yields exactly the
\* records that pass the tag filter (all of them when no tag is active, which
\* is how the page treats null and the empty string), each as a result with
\* an item and nothing else, in collection order.
C5_EmptyQueryPassthrough ==
    (Trim(query) = <<>> /\ sortBy = "relevance") =>
        LET tagSet == activeTag # <<>> /\ activeTag[1] # <<>>
            passes(i) == \/ ~tagSet
                         \/ \E t \in 1..Len(SAMPLE_DATA[i].tags) :
                                SAMPLE_DATA[i].tags[t] = activeTag[1]
            passing == { i \in 1..Len(SAMPLE_DATA) : passes(i) }
        IN /\ Len(results) = Cardinality(passing)
           /\ \A k \in 1..Len(results) :
                  /\ DOMAIN results[k] = {"item"}
                  /\ \E i \in passing : results[k].item = SAMPLE_DATA[i]
           /\ \A k, l \in 1..Len(results) :
                  k < l => CollectionIndex(results[k].item.id)
                               < CollectionIndex(results[l].item.id)

\* a whitespace-only query under relevance with a tag that filters some
\* records out and lets some pass
C5_Witness ==
    /\ query = <<" ">>
    /\ sortBy = "relevance"
    /\ activeTag # <<>>
    /\ 0 < Len(results) /\ Len(results) < Len(SAMPLE_DATA)

\* C6: with an active tag, a result of the search stage is in the result
\* list exactly when its record has a tag equal to it, character for
\* character; with no active tag (null, or the empty string the page treats
\* alike) every result of the search stage is in the list.
C6_TagFilterExact ==
    LET tagSet == activeTag # <<>> /\ activeTag[1] # <<>>
        searched == SearchStage(SAMPLE_DATA, query)
        listed(r) == \E k \in 1..Len(results) : results[k] = r
    IN \A s \in 1..Len(searched) :
           listed(searched[s])
               <=> (tagSet =>
                       \E t \in 1..Len(searched[s].item.tags) :
                           searched[s].item.tags[t] = activeTag[1])

\* the tag "ab" is active, a record tagged only "AB" is left out and a
\* record tagged "ab" is listed
C6_Witness ==
    /\ activeTag = << <<"a", "b">> >>
    /\ \E i \in 1..Len(SAMPLE_DATA) :
           /\ SAMPLE_DATA[i].tags = << <<"A", "B">> >>
           /\ \A k \in 1..Len(results) : results[k].item # SAMPLE_DATA[i]
    /\ Len(results) > 0

\* how often x occurs in a list
Occurrences(list, x) == Cardinality({ k \in 1..Len(list) : list[k] = x })

\* C7: newest lists dates in non-increasing order, oldest in non-decreasing
\* order, and either way the result list is a permutation of the filtered
\* list.
C7_DateOrderPermutation ==
    /\ sortBy = "newest" =>
           \A i, j \in 1..Len(results) :
               i < j => results[i].item.date >= results[j].item.date
    /\ sortBy = "oldest" =>
           \A i, j \in 1..Len(results) :
               i < j => results[i].item.date <= results[j].item.date
    /\ DateSorted =>
           /\ Len(results) = Len(Filtered)
           /\ \A k \in 1..Len(Filtered) :
                  Occurrences(results, Filtered[k]) = Occurrences(Filtered, Filtered[k])

\* a newest sort that had to move a result
C7_Witness ==
    /\ sortBy = "newest"
    /\ Len(results) >= 2
    /\ results # Filtered

\* C8: for a positive page size the page is the first min(pageSize,
\* totalCount) entries of the result list, in order.
C8_PageIsPrefix ==
    perPage > 0 =>
        /\ Len(paginatedResults) = Min(perPage, Len(results))
        /\ \A k \in 1..Len(paginatedResults) : paginatedResults[k] = results[k]

\* a positive page size smaller than the result list
C8_Witness ==
    /\ perPage > 0
    /\ perPage < Len(results)
    /\ Len(paginatedResults) = perPage


\* the range of a sequence
Range(seq) == { seq[k] : k \in 1..Len(seq) }

\* the positions at which a whitespace-delimited word of the title starts
WordStarts(title) ==
    { a \in 1..Len(title) : ~IsSpace(title[a]) /\ (a = 1 \/ IsSpace(title[a - 1])) }

\* the last position of the word that starts at a
WordEnd(title, a) ==
    CHOOSE b \in a..Len(title) :
        /\ \A p \in a..b : ~IsSpace(title[p])
        /\ b = Len(title) \/ IsSpace(title[b + 1])

\* more than the steps of the scan of any one record
EncounterStride ==
    1 + Cardinality(UNION { 1..(Len(SAMPLE_DATA[i].title) + Len(SAMPLE_DATA[i].tags)) :
                              i \in 1..Len(SAMPLE_DATA) })

\* a scan of the collection, record by record, title words before tags: the
\* pairs of a moment of the scan and the token it meets then
Encounters ==
    UNION { { <<i * EncounterStride + a,
                SubSeq(SAMPLE_DATA[i].title, a, WordEnd(SAMPLE_DATA[i].title, a))>> :
                a \in WordStarts(SAMPLE_DATA[i].title) }
            \cup
            { <<i * EncounterStride + Len(SAMPLE_DATA[i].title) + t,
                SAMPLE_DATA[i].tags[t]>> :
                t \in 1..Len(SAMPLE_DATA[i].tags) } :
            i \in 1..Len(SAMPLE_DATA) }

\* C9: after handleQueryChange with a value of at least 2 characters once
\* trimmed, the suggestions are at most 8, pairwise different, each a title
\* word or a tag that contains the value case-insensitively, in the order a
\* scan of the collection first meets them, and no token met earlier than a
\* listed one is left out: they are the first 8 of the first-encounter
\* sequence.
C9_SuggestionsFirstEight ==
    Len(Trim(inputValue)) >= 2 =>
        LET met == Encounters
            tokens == { e[2] : e \in met }
            first == [token \in tokens |->
                        CHOOSE m \in { e[1] : e \in { f \in met : f[2] = token } } :
                            \A e \in met : e[2] = token => m <= e[1]]
            matching == { token \in tokens :
                            Includes(ToLowerCase(token), ToLowerCase(inputValue)) }
        IN /\ Len(suggestions) <= MaxSuggestions
           /\ Range(suggestions) \subseteq matching
           /\ \A i, j \in 1..Len(suggestions) :
                  i < j => /\ suggestions[i] # suggestions[j]
                           /\ first[suggestions[i]] < first[suggestions[j]]
           /\ \A token \in matching \ Range(suggestions) :
                  /\ Len(suggestions) = MaxSuggestions
                  /\ first[token] > first[suggestions[MaxSuggestions]]

\* a value that more than 8 tokens contain, with tokens that differ from it
\* in case among the 8 listed
C9_Witness ==
    /\ inputValue = <<"a", "B">>
    /\ Len(suggestions) = MaxSuggestions
    /\ Cardinality({ e[2] : e \in { f \in Encounters :
                          Includes(ToLowerCase(f[2]), ToLowerCase(inputValue)) } })
           > MaxSuggestions
    /\ \E k \in 1..Len(suggestions) : ~Includes(suggestions[k], inputValue)

\* C10: the highlighted ranges a call renders are pairwise disjoint and not
\* adjacent, and every character of the text is rendered exactly once: no
\* two consecutive parts are both highlighted and the parts, joined, are the
\* text.
C10_HighlightsMerged ==
    /\ \A k \in 1..(Len(hlParts) - 1) :
           ~(hlParts[k].highlight /\ hlParts[k + 1].highlight)
    /\ Flatten([k \in 1..Len(hlParts) |-> hlParts[k].text]) = hlText

\* C3: a sequence getSearchItems handed out holds, whatever ran since, the
\* records it held when it was read.
C3_ReadIsSnapshot ==
    \A h \in 1..Len(handedOut) : Contents(handedOut[h]) = handedOut[h].atRead

\* the ids of a sequence of records
Ids(items) == { items[k].id : k \in 1..Len(items) }

\* C4: the ids of the collection are pairwise different at all times, and
\* the id a call of addSearchItem returns is none of the ids present or
\* returned before the call.
C4_IdsUniqueNeverReused ==
    /\ [](\A k, l \in 1..Len(searchItems) :
              k < l => searchItems[k].id # searchItems[l].id)
    /\ [][Len(addReturned') > Len(addReturned)
              => addReturned'[Len(addReturned')].id
                     \notin (Ids(searchItems) \cup Ids(addReturned))]_vars

\* three records were added to the ten seeded ones
C4_Witness ==
    /\ Len(addReturned) >= 3
    /\ Len(searchItems) = Len(SeedItems) + Len(addReturned)


\* C11: the count the page reports is the length of the filtered and sorted
\* list of the current query, tag and sort mode, before truncation; the page
\* size has no part in it and the page is never longer than it.
C11_CountIsPreTruncationLength ==
    /\ TextResultCount = Len(Results(SAMPLE_DATA, query, activeTag, sortBy))
    /\ TextResultCount >= Len(paginatedResults)

\* the page was truncated, so the count exceeds the page length
C11_Witness ==
    /\ Trim(query) # <<>>
    /\ perPage > 0
    /\ Len(paginatedResults) < TextResultCount

\* C12: computing a result list never changes the record collection: over
\* every step of the page, whatever the query text, active tag and sort mode
\* (the in-place date sorts included), the collection holds the same records
\* in the same order as before.
C12_CollectionNeverMutated == [][SAMPLE_DATA' = SAMPLE_DATA]_vars

\* a date sort of the whole collection (empty query, no tag) moved a record
C12_Witness ==
    /\ sortBy \in {"newest", "oldest"}
    /\ ~Truthy(Trim(query))
    /\ ~ActiveTagTruthy(activeTag)
    /\ Len(results) = Len(SAMPLE_DATA)
    /\ \E k \in 1..Len(results) : results[k].item # SAMPLE_DATA[k]

\* the insert shape, read off a body key by key: title, description and
\* date are strings and tags is an array of strings
HasInsertShape(body) ==
    /\ body.type = "object"
    /\ {"title", "description", "tags", "date"} \subseteq DOMAIN body.fields
    /\ \A key \in {"title", "description", "date"} : body.fields[key].type = "string"
    /\ body.fields["tags"].type = "array"
    /\ ~\E i \in 1..Len(body.fields["tags"].elems) :
           body.fields["tags"].elems[i].type # "string"

\* C13: every answer of POST /api/items is a 400 that leaves the collection
\* and nextId as they were when the body does not have the insert shape, and
\* otherwise a 201 whose payload is the one record appended at the end of the
\* otherwise unchanged collection, holding the body's fields and an id that
\* is the former nextId and that no record had.
C13_PostValidatesThenAppends ==
    [][Len(responses') > Len(responses) =>
        LET resp == responses'[Len(responses')]
            body == RequestBodies[resp.request]
        IN IF HasInsertShape(body)
           THEN /\ resp.status = 201
                /\ Len(searchItems') = Len(searchItems) + 1
                /\ SubSeq(searchItems', 1, Len(searchItems)) = searchItems
                /\ resp.body = searchItems'[Len(searchItems')]
                /\ resp.body.id = nextId
                /\ resp.body.id \notin Ids(searchItems)
                /\ resp.body.title = body.fields["title"].str
                /\ resp.body.description = body.fields["description"].str
                /\ resp.body.date = body.fields["date"].str
                /\ Len(resp.body.tags) = Len(body.fields["tags"].elems)
                /\ \A i \in 1..Len(resp.body.tags) :
                       resp.body.tags[i] = body.fields["tags"].elems[i].str
           ELSE /\ resp.status = 400
                /\ searchItems' = searchItems
                /\ nextId' = nextId]_vars

\* a rejected body and an accepted one that carried an id of its own
C13_Witness ==
    /\ \E i \in 1..Len(responses) : responses[i].status = 400
    /\ \E j \in 1..Len(responses) :
           /\ responses[j].status = 201
           /\ "id" \in DOMAIN RequestBodies[responses[j].request].fields
           /\ Len(searchItems) > Len(SeedItems)

=============================================================================
